---- MODULE Spec2Model ----
(* A state-machine model of src/main.py: one run of main_demonstration, with  *)
(* is_logged_in, login, company_search, people_search and people_message      *)
(* inlined at their call sites. Every awaited page-driver operation is one    *)
(* step; the page (URL, probe controls, rendered cards) and the outcome of    *)
(* each driver operation are chosen by the environment.                       *)
EXTENDS Integers, Sequences, FiniteSets, TLC

VARIABLES
    pc,            \* position of the run inside main_demonstration and its callees
    browser,       \* "none" | "open" | "closed"
    landing,       \* the page is_logged_in looks at: [url, signIn, joinNow]
    probed,        \* the probes is_logged_in has evaluated, in order
    logged_in,     \* what is_logged_in returned: "none" | "True" | "False"
    email,         \* LINKEDIN_EMAIL
    password,      \* LINKEDIN_PASSWORD
    loginSteps,    \* the steps of login's sequence that completed, in order
    loginResult,   \* what login returned: "none" | "True" | "False"
    files,         \* screenshot files written
    log,           \* every message printed, in order
    filterWait,    \* people_search: outcome of the wait for 'All filters':
                   \* "none" | "visible" | "timeout"
    cards,         \* the profile cards page.locator(...).all() returned
    idx,           \* people_search: index of the next card of the for loop
    examined,      \* people_search: indices of the cards whose try body was entered
    results,       \* people_search: the local list `results`
    person_found,  \* main_demonstration: the list people_search returned
    di,            \* main_demonstration: index of the next person of the for loop
    messaged,      \* the arguments of the people_message calls, in order
    clicked,       \* the "Message ..." buttons whose click completed, in order
    closes,        \* the number of browser.close() calls
    lateOps,       \* page-driver operations invoked after browser.close()
    driverFailed,  \* some page-driver operation on the open page raised
    raisedAt       \* the step whose exception left main_demonstration, or ""

vars == <<pc, browser, landing, probed, logged_in, email, password, loginSteps,
          loginResult, files, log, filterWait, cards, idx, examined, results, person_found,
          di, messaged, clicked, closes, lateOps, driverFailed, raisedAt>>

-----------------------------------------------------------------------------
(* Bounds and input sets *)

MaxCards == 2

\* Python values that are a str, None, or "the read raised".
None == [k |-> "None", v |-> ""]
Raises == [k |-> "raises", v |-> ""]
Str(s) == [k |-> "str", v |-> s]

Emails == {"user@example.com"}
Passwords == {"hunter2"}

FeedUrl == "https://www.linkedin.com/feed/"
LoginUrl == "https://www.linkedin.com/login"
Urls == {FeedUrl, FeedUrl \o "?trk=nav", LoginUrl}
ProbeOutcomes == {"visible", "hidden", "raises"}
Pages == [url : Urls, signIn : ProbeOutcomes, joinNow : ProbeOutcomes]
NoPage == [url |-> "", signIn |-> "hidden", joinNow |-> "hidden"]

AltReads == {Raises, None, Str(""), Str("Alice A"), Str("Carol C")}
StatusReads == {Raises, Str(""), Str("Status is online"), Str("Away")}
Cards == [alt : AltReads, status : StatusReads]
CardLists == UNION {[1..n -> Cards] : n \in 0..MaxCards}

ErrorTexts == {"Timeout exceeded."}

-----------------------------------------------------------------------------
(* Pure helpers *)

\* Python's `needle in hay` on strings.
Contains(needle, hay) ==
    \E i \in 1..(Len(hay) - Len(needle) + 1) :
        SubSeq(hay, i, i + Len(needle) - 1) = needle

\* str(x) of a name: a str prints as itself in quotes, None as None.
Repr(x) == IF x.k = "None" THEN "None" ELSE "'" \o x.v \o "'"

RECURSIVE ReprItems(_)
ReprItems(s) ==
    IF s = <<>> THEN ""
    ELSE IF Len(s) = 1 THEN Repr(s[1])
    ELSE Repr(s[1]) \o ", " \o ReprItems(Tail(s))

\* print(results)
ReprList(s) == "[" \o ReprItems(s) \o "]"

OnFeedPageExact(u) == u = FeedUrl
\* "/feed" in page.url
OnFeedPage(u) == Contains("/feed", u)

HasActiveStatusNonEmpty(text) == text # ""
\* await span.inner_text() and "Status" in await span.inner_text()
HasActiveStatus(text) == text # "" /\ Contains("Status", text)

CollectFront(res, name) == <<name>> \o res
\* results.append(name)
Collect(res, name) == Append(res, name)

AfterCardErrorRetry(i, n) == i
AfterCardErrorBreak(i, n) == n + 1
\* except Exception: continue
AfterCardError(i, n) == i + 1

\* name1 = "Message " + person
MessageButton(person) == "Message " \o person.v

-----------------------------------------------------------------------------
(* Frames *)

Say(msgs) == log' = log \o msgs

\* An exception leaves main_demonstration at `step`.
Propagate(step) ==
    /\ pc' = "raised"
    /\ raisedAt' = step

DetectVars == <<landing, probed, logged_in>>
LoginVars == <<loginSteps, loginResult, files>>
SearchVars == <<filterWait, cards, idx, examined, results, person_found>>
DispatchVars == <<di, messaged, clicked>>
CloseVars == <<browser, closes, lateOps>>
CredVars == <<email, password>>

Init ==
    /\ pc = "start"
    /\ browser = "none"
    /\ landing = NoPage
    /\ probed = <<>>
    /\ logged_in = "none"
    /\ email \in Emails
    /\ password \in Passwords
    /\ loginSteps = <<>>
    /\ loginResult = "none"
    /\ files = {}
    /\ log = <<>>
    /\ filterWait = "none"
    /\ cards = <<>>
    /\ idx = 1
    /\ examined = {}
    /\ results = <<>>
    /\ person_found = <<>>
    /\ di = 1
    /\ messaged = <<>>
    /\ clicked = <<>>
    /\ closes = 0
    /\ lateOps = {}
    /\ driverFailed = FALSE
    /\ raisedAt = ""

-----------------------------------------------------------------------------
(* main_demonstration: launch and first navigation *)

Launch ==
    /\ pc = "start"
    /\ browser' = "open"
    /\ pc' = "goto_feed"
    /\ UNCHANGED <<DetectVars, CredVars, LoginVars, log, SearchVars, DispatchVars,
                   closes, lateOps, driverFailed, raisedAt>>

GotoFeed ==
    /\ pc = "goto_feed"
    /\ \/ /\ landing' \in Pages
          /\ pc' = "is_logged_in"
          /\ UNCHANGED <<driverFailed, raisedAt>>
       \/ /\ Propagate("main.goto")
          /\ driverFailed' = TRUE
          /\ UNCHANGED landing
    /\ UNCHANGED <<probed, logged_in, CredVars, LoginVars, log, SearchVars,
                   DispatchVars, CloseVars>>

-----------------------------------------------------------------------------
(* is_logged_in *)

LoggedOutMsg == "INFO: Found 'Sign in' or 'Join now' elements. User is logged out."
FallbackMsg == "INFO: Did not find explicit login prompts, assuming user is logged in."

\* if "/feed" in page.url: ... return True
IsLoggedInUrl ==
    /\ pc = "is_logged_in"
    /\ IF OnFeedPage(landing.url)
       THEN /\ Say(<<"INFO: Currently on the feed page. User is logged in.">>)
            /\ logged_in' = "True"
            /\ pc' = "detected"
       ELSE /\ pc' = "probe_sign_in"
            /\ UNCHANGED <<log, logged_in>>
    /\ UNCHANGED <<landing, probed, CredVars, LoginVars, SearchVars, DispatchVars,
                   CloseVars, driverFailed, raisedAt>>

ProbeSignInDismisses ==
    /\ pc = "probe_sign_in"
    /\ probed' = Append(probed, "Sign in")
    /\ CASE landing.signIn = "visible" ->
                /\ Say(<<LoggedOutMsg>>)
                /\ logged_in' = "False"
                /\ pc' = "detected"
                /\ landing' = [landing EXCEPT !.signIn = "hidden"]
                /\ UNCHANGED driverFailed
         [] landing.signIn = "hidden" ->
                /\ pc' = "probe_join_now"
                /\ UNCHANGED <<landing, log, logged_in, driverFailed>>
         [] landing.signIn = "raises" ->
                /\ Say(<<FallbackMsg>>)
                /\ logged_in' = "True"
                /\ pc' = "detected"
                /\ driverFailed' = TRUE
                /\ UNCHANGED landing
    /\ UNCHANGED <<CredVars, LoginVars, SearchVars, DispatchVars, CloseVars, raisedAt>>

\* await sign_in_button.is_visible(timeout=2000), the left operand of `or`
ProbeSignIn ==
    /\ pc = "probe_sign_in"
    /\ probed' = Append(probed, "Sign in")
    /\ CASE landing.signIn = "visible" ->
                /\ Say(<<LoggedOutMsg>>)
                /\ logged_in' = "False"
                /\ pc' = "detected"
                /\ UNCHANGED driverFailed
         [] landing.signIn = "hidden" ->
                /\ pc' = "probe_join_now"
                /\ UNCHANGED <<log, logged_in, driverFailed>>
         [] landing.signIn = "raises" ->
                /\ Say(<<FallbackMsg>>)
                /\ logged_in' = "True"
                /\ pc' = "detected"
                /\ driverFailed' = TRUE
    /\ UNCHANGED <<landing, CredVars, LoginVars, SearchVars, DispatchVars,
                   CloseVars, raisedAt>>

ProbeJoinNowUncaught ==
    /\ pc = "probe_join_now"
    /\ probed' = Append(probed, "Join now")
    /\ CASE landing.joinNow = "visible" ->
                /\ Say(<<LoggedOutMsg>>)
                /\ logged_in' = "False"
                /\ pc' = "detected"
                /\ UNCHANGED <<driverFailed, raisedAt>>
         [] landing.joinNow = "hidden" ->
                /\ Say(<<FallbackMsg>>)
                /\ logged_in' = "True"
                /\ pc' = "detected"
                /\ UNCHANGED <<driverFailed, raisedAt>>
         [] landing.joinNow = "raises" ->
                /\ pc' = "raised"
                /\ raisedAt' = "is_logged_in.join_now"
                /\ driverFailed' = TRUE
                /\ UNCHANGED <<log, logged_in>>
    /\ UNCHANGED <<landing, CredVars, LoginVars, SearchVars, DispatchVars, CloseVars>>

\* await join_now_link.is_visible(timeout=2000), the right operand of `or`
ProbeJoinNow ==
    /\ pc = "probe_join_now"
    /\ probed' = Append(probed, "Join now")
    /\ CASE landing.joinNow = "visible" ->
                /\ Say(<<LoggedOutMsg>>)
                /\ logged_in' = "False"
                /\ UNCHANGED driverFailed
         [] landing.joinNow = "hidden" ->
                /\ Say(<<FallbackMsg>>)
                /\ logged_in' = "True"
                /\ UNCHANGED driverFailed
         [] landing.joinNow = "raises" ->
                /\ Say(<<FallbackMsg>>)
                /\ logged_in' = "True"
                /\ driverFailed' = TRUE
    /\ pc' = "detected"
    /\ UNCHANGED <<landing, CredVars, LoginVars, SearchVars, DispatchVars,
                   CloseVars, raisedAt>>

BranchInverted ==
    /\ pc = "detected"
    /\ IF logged_in = "True"
       THEN /\ Say(<<"User is not logged in. Attempting login...",
                     "INFO: Navigating to LinkedIn login page...">>)
            /\ pc' = "login_goto"
       ELSE /\ Say(<<"User is already logged in. No action needed.",
                     "Searching for People to connect ">>)
            /\ pc' = "cs_click"
    /\ UNCHANGED <<DetectVars, CredVars, LoginVars, SearchVars, DispatchVars,
                   CloseVars, driverFailed, raisedAt>>

\* if not await is_logged_in(page): ... else: ...
Branch ==
    /\ pc = "detected"
    /\ IF logged_in = "False"
       THEN /\ Say(<<"User is not logged in. Attempting login...",
                     "INFO: Navigating to LinkedIn login page...">>)
            /\ pc' = "login_goto"
       ELSE /\ Say(<<"User is already logged in. No action needed.",
                     "Searching for People to connect ">>)
            /\ pc' = "cs_click"
    /\ UNCHANGED <<DetectVars, CredVars, LoginVars, SearchVars, DispatchVars,
                   CloseVars, driverFailed, raisedAt>>

-----------------------------------------------------------------------------
(* login *)

\* except Exception as e: the three prints of the handler
LoginFailed(msgs, e) ==
    /\ Say(msgs \o <<"ERROR: Login attempt failed.",
                     "Check the screenshot and error message below to debug.",
                     "DEBUG: The specific error was: " \o e>>)
    /\ pc' = "login_screenshot"
    /\ driverFailed' = TRUE

\* await page.goto("https://www.linkedin.com/login"), before the try
LoginGoto ==
    /\ pc = "login_goto"
    /\ \/ /\ loginSteps' = Append(loginSteps, "goto")
          /\ landing' = NoPage
          /\ Say(<<"INFO: Locating the email field using its ID...">>)
          /\ pc' = "login_wait"
          /\ UNCHANGED <<driverFailed, raisedAt>>
       \/ /\ Propagate("login.goto")
          /\ driverFailed' = TRUE
          /\ UNCHANGED <<loginSteps, landing, log>>
    /\ UNCHANGED <<probed, logged_in, CredVars, loginResult, files, SearchVars,
                   DispatchVars, CloseVars>>

\* await email_field.wait_for(timeout=10000)
LoginWait ==
    /\ pc = "login_wait"
    /\ \/ /\ loginSteps' = Append(loginSteps, "wait_for")
          /\ Say(<<"INFO: Filling out email: " \o email>>)
          /\ pc' = "login_fill_email"
          /\ UNCHANGED driverFailed
       \/ /\ \E e \in ErrorTexts : LoginFailed(<<>>, e)
          /\ UNCHANGED loginSteps
    /\ UNCHANGED <<DetectVars, CredVars, loginResult, files, SearchVars,
                   DispatchVars, CloseVars, raisedAt>>

\* await email_field.fill(email)
LoginFillEmail ==
    /\ pc = "login_fill_email"
    /\ \/ /\ loginSteps' = Append(loginSteps, "fill_email")
          /\ Say(<<"INFO: Locating and filling password field...">>)
          /\ pc' = "login_fill_password"
          /\ UNCHANGED driverFailed
       \/ /\ \E e \in ErrorTexts : LoginFailed(<<>>, e)
          /\ UNCHANGED loginSteps
    /\ UNCHANGED <<DetectVars, CredVars, loginResult, files, SearchVars,
                   DispatchVars, CloseVars, raisedAt>>

\* await password_field.fill(password)
LoginFillPassword ==
    /\ pc = "login_fill_password"
    /\ \/ /\ loginSteps' = Append(loginSteps, "fill_password")
          /\ Say(<<"INFO: Clicking 'Sign in'...">>)
          /\ pc' = "login_click"
          /\ UNCHANGED driverFailed
       \/ /\ \E e \in ErrorTexts : LoginFailed(<<>>, e)
          /\ UNCHANGED loginSteps
    /\ UNCHANGED <<DetectVars, CredVars, loginResult, files, SearchVars,
                   DispatchVars, CloseVars, raisedAt>>

LoginClickFailureIgnored ==
    /\ pc = "login_click"
    /\ \/ /\ loginSteps' = Append(loginSteps, "click_sign_in")
          /\ UNCHANGED driverFailed
       \/ /\ driverFailed' = TRUE
          /\ UNCHANGED loginSteps
    /\ Say(<<"INFO: Waiting for login confirmation...">>)
    /\ pc' = "login_expect"
    /\ UNCHANGED <<DetectVars, CredVars, loginResult, files, SearchVars,
                   DispatchVars, CloseVars, raisedAt>>

\* await page.get_by_role("button", name="Sign in", exact=True).click()
LoginClick ==
    /\ pc = "login_click"
    /\ \/ /\ loginSteps' = Append(loginSteps, "click_sign_in")
          /\ Say(<<"INFO: Waiting for login confirmation...">>)
          /\ pc' = "login_expect"
          /\ UNCHANGED driverFailed
       \/ /\ \E e \in ErrorTexts : LoginFailed(<<>>, e)
          /\ UNCHANGED loginSteps
    /\ UNCHANGED <<DetectVars, CredVars, loginResult, files, SearchVars,
                   DispatchVars, CloseVars, raisedAt>>

\* await expect(messaging_link).to_be_visible(timeout=60000); return True
LoginExpect ==
    /\ pc = "login_expect"
    /\ \/ /\ loginSteps' = Append(loginSteps, "messaging_visible")
          /\ Say(<<"SUCCESS: Login successful!", "Searching for People to connect ">>)
          /\ loginResult' = "True"
          /\ pc' = "cs_click"
          /\ UNCHANGED driverFailed
       \/ /\ \E e \in ErrorTexts : LoginFailed(<<>>, e)
          /\ UNCHANGED <<loginSteps, loginResult>>
    /\ UNCHANGED <<DetectVars, CredVars, files, SearchVars, DispatchVars,
                   CloseVars, raisedAt>>

\* await page.screenshot(path=screenshot_path), inside the handler
LoginScreenshot ==
    /\ pc = "login_screenshot"
    /\ \/ /\ files' = files \cup {"login_error.png"}
          /\ Say(<<"A screenshot has been saved to 'login_error.png'">>)
          /\ pc' = "login_pause"
          /\ UNCHANGED raisedAt
       \/ /\ Propagate("login.screenshot")
          /\ UNCHANGED <<files, log>>
    /\ UNCHANGED <<DetectVars, CredVars, loginSteps, loginResult, SearchVars,
                   DispatchVars, CloseVars, driverFailed>>

LoginPauseThenRedetect ==
    /\ pc = "login_pause"
    /\ \/ /\ loginResult' = "False"
          /\ pc' = "is_logged_in"
          /\ UNCHANGED <<raisedAt, log>>
       \/ /\ Propagate("login.pause")
          /\ UNCHANGED <<loginResult, log>>
    /\ UNCHANGED <<DetectVars, CredVars, loginSteps, files, SearchVars,
                   DispatchVars, CloseVars, driverFailed>>

\* await page.pause(); return False
LoginPause ==
    /\ pc = "login_pause"
    /\ \/ /\ loginResult' = "False"
          /\ Say(<<"Searching for People to connect ">>)
          /\ pc' = "cs_click"
          /\ UNCHANGED raisedAt
       \/ /\ Propagate("login.pause")
          /\ UNCHANGED <<loginResult, log>>
    /\ UNCHANGED <<DetectVars, CredVars, loginSteps, files, SearchVars,
                   DispatchVars, CloseVars, driverFailed>>

-----------------------------------------------------------------------------
(* company_search *)

COMPANY_TO_SEARCH == "Amazon"

\* One awaited page-driver operation on the open page at `here`: it completes,
\* printing `msgs` and moving to `there`, or raises, and nothing below
\* main_demonstration catches it.
DriverStep(here, there, msgs, step) ==
    /\ pc = here
    /\ \/ /\ pc' = there
          /\ Say(msgs)
          /\ UNCHANGED <<driverFailed, raisedAt>>
       \/ /\ Propagate(step)
          /\ driverFailed' = TRUE
          /\ UNCHANGED log

\* await page.get_by_role("combobox", name="Search", exact=True).click()
CsClick ==
    /\ DriverStep("cs_click", "cs_fill",
                  <<"INFO: Filling out company: " \o COMPANY_TO_SEARCH>>,
                  "company_search.click")
    /\ UNCHANGED <<DetectVars, CredVars, LoginVars, SearchVars, DispatchVars, CloseVars>>

\* await page.get_by_role("combobox", name="Search").fill(COMPANY_TO_SEARCH)
CsFill ==
    /\ DriverStep("cs_fill", "cs_enter", <<>>, "company_search.fill")
    /\ UNCHANGED <<DetectVars, CredVars, LoginVars, SearchVars, DispatchVars, CloseVars>>

\* await page.keyboard.press("Enter"): the query is submitted, the page navigates
CsEnter ==
    /\ DriverStep("cs_enter", "cs_wait", <<"Found Company...">>, "company_search.press")
    /\ landing' = IF pc' = "cs_wait" THEN NoPage ELSE landing
    /\ UNCHANGED <<probed, logged_in, CredVars, LoginVars, SearchVars, DispatchVars,
                   CloseVars>>

\* await page.wait_for_timeout(3000); back in main_demonstration, people_search starts
CsWait ==
    /\ DriverStep("cs_wait", "ps_expect",
                  <<"Company search completed", "Searching for people.....",
                    "Demonstration finished. Keeping browser open...">>,
                  "company_search.wait_for_timeout")
    /\ UNCHANGED <<DetectVars, CredVars, LoginVars, SearchVars, DispatchVars, CloseVars>>

-----------------------------------------------------------------------------
(* people_search *)

PsExpectFailOpen ==
    /\ pc = "ps_expect"
    /\ pc' = "ps_all_filters"
    /\ \/ /\ filterWait' = "visible"
          /\ UNCHANGED driverFailed
       \/ /\ filterWait' = "timeout"
          /\ driverFailed' = TRUE
    /\ UNCHANGED <<DetectVars, CredVars, LoginVars, log, cards, idx, examined, results,
                   person_found, DispatchVars, CloseVars, raisedAt>>

\* await expect(all_filters_button).to_be_visible(timeout=3000)
PsExpect ==
    /\ DriverStep("ps_expect", "ps_all_filters", <<>>, "people_search.expect")
    /\ filterWait' = IF pc' = "ps_all_filters" THEN "visible" ELSE "timeout"
    /\ UNCHANGED <<DetectVars, CredVars, LoginVars, cards, idx, examined, results,
                   person_found, DispatchVars, CloseVars>>

\* await all_filters_button.click()
PsAllFilters ==
    /\ DriverStep("ps_all_filters", "ps_first", <<>>, "people_search.all_filters")
    /\ UNCHANGED <<DetectVars, CredVars, LoginVars, SearchVars, DispatchVars, CloseVars>>

\* await page.get_by_role("button", name="1st", exact=True).click()
PsFirst ==
    /\ DriverStep("ps_first", "ps_apply", <<>>, "people_search.first")
    /\ UNCHANGED <<DetectVars, CredVars, LoginVars, SearchVars, DispatchVars, CloseVars>>

\* await page.get_by_role("button", name="Apply current filters ...").click()
PsApply ==
    /\ DriverStep("ps_apply", "ps_wait", <<"applying People Filters.....">>,
                  "people_search.apply")
    /\ UNCHANGED <<DetectVars, CredVars, LoginVars, SearchVars, DispatchVars, CloseVars>>

\* await page.wait_for_timeout(3000)
PsWait ==
    /\ DriverStep("ps_wait", "ps_cards", <<>>, "people_search.wait_for_timeout")
    /\ UNCHANGED <<DetectVars, CredVars, LoginVars, SearchVars, DispatchVars, CloseVars>>

\* results = []; profile_cards = await page.locator(...).all()
PsCards ==
    /\ DriverStep("ps_cards", "ps_loop", <<>>, "people_search.all")
    /\ IF pc' = "ps_loop"
       THEN /\ cards' \in CardLists
            /\ results' = <<>>
            /\ idx' = 1
       ELSE UNCHANGED <<cards, results, idx>>
    /\ UNCHANGED <<DetectVars, CredVars, LoginVars, filterWait, examined,
                   person_found, DispatchVars, CloseVars>>

\* One iteration of `for card in profile_cards`: the try body and its handler.
ExtractCard ==
    /\ pc = "ps_loop"
    /\ idx <= Len(cards)
    /\ examined' = examined \cup {idx}
    /\ LET card == cards[idx] IN
       IF card.alt = Raises \/ card.status = Raises
       THEN /\ idx' = AfterCardError(idx, Len(cards))
            /\ driverFailed' = TRUE
            /\ UNCHANGED results
       ELSE /\ idx' = idx + 1
            /\ results' = IF HasActiveStatus(card.status.v)
                          THEN Collect(results, card.alt)
                          ELSE results
            /\ UNCHANGED driverFailed
    /\ UNCHANGED <<pc, DetectVars, CredVars, LoginVars, log, filterWait, cards,
                   person_found, DispatchVars, CloseVars, raisedAt>>

\* print(...); print(results); return results -> person_found
PsReturn ==
    /\ pc = "ps_loop"
    /\ idx > Len(cards)
    /\ Say(<<"Profiles with Status found....", ReprList(results)>>)
    /\ person_found' = results
    /\ di' = 1
    /\ pc' = "dispatch"
    /\ UNCHANGED <<DetectVars, CredVars, LoginVars, filterWait, cards, idx, examined,
                   results, messaged, clicked, CloseVars, driverFailed, raisedAt>>

-----------------------------------------------------------------------------
(* main_demonstration: the dispatch loop and the end of the run *)

KeepOpenMsg == "Demonstration finished. Keeping browser open..."

\* await page.pause() at `here`. On the open page it completes or raises. After
\* browser.close() the call is still made; it returns or raises, depending on
\* the driver.
Pause(here, there, step) ==
    /\ pc = here
    /\ IF browser = "open"
       THEN /\ \/ /\ pc' = there
                  /\ UNCHANGED <<driverFailed, raisedAt>>
               \/ /\ Propagate(step)
                  /\ driverFailed' = TRUE
            /\ UNCHANGED lateOps
       ELSE /\ lateOps' = lateOps \cup {step}
            /\ \/ /\ pc' = there
                  /\ UNCHANGED raisedAt
               \/ Propagate(step)
            /\ UNCHANGED driverFailed

PeopleMessageIsolated ==
    /\ pc = "dispatch"
    /\ di <= Len(person_found)
    /\ LET person == person_found[di] IN
       /\ messaged' = Append(messaged, person)
       /\ IF person # None /\ browser = "open"
          THEN \/ /\ clicked' = Append(clicked, MessageButton(person))
                  /\ Say(<<KeepOpenMsg>>)
                  /\ pc' = "loop_pause"
                  /\ UNCHANGED <<di, driverFailed>>
               \/ /\ driverFailed' = TRUE
                  /\ di' = di + 1
                  /\ UNCHANGED <<pc, clicked, log>>
          ELSE /\ di' = di + 1
               /\ UNCHANGED <<pc, clicked, log, driverFailed>>
    /\ UNCHANGED <<DetectVars, CredVars, LoginVars, SearchVars, CloseVars, raisedAt>>

\* for person in person_found: await people_message(page, person)
PeopleMessage ==
    /\ pc = "dispatch"
    /\ di <= Len(person_found)
    /\ LET person == person_found[di] IN
       /\ messaged' = Append(messaged, person)
       /\ IF person = None
          THEN \* "Message " + None is a TypeError
               /\ Propagate("people_message.concat")
               /\ UNCHANGED <<clicked, log, lateOps, driverFailed>>
          ELSE IF browser = "open"
          THEN /\ \/ /\ clicked' = Append(clicked, MessageButton(person))
                     /\ Say(<<KeepOpenMsg>>)
                     /\ pc' = "loop_pause"
                     /\ UNCHANGED <<driverFailed, raisedAt>>
                  \/ /\ Propagate("people_message.click")
                     /\ driverFailed' = TRUE
                     /\ UNCHANGED <<clicked, log>>
               /\ UNCHANGED lateOps
          ELSE /\ lateOps' = lateOps \cup {"people_message.click"}
               /\ Propagate("people_message.click")
               /\ UNCHANGED <<clicked, log, driverFailed>>
    /\ UNCHANGED <<DetectVars, CredVars, LoginVars, SearchVars, di, browser, closes>>

\* await page.pause(), inside the loop
LoopPause ==
    /\ Pause("loop_pause", "loop_close", "main.loop.pause")
    /\ UNCHANGED <<DetectVars, CredVars, LoginVars, log, SearchVars, DispatchVars,
                   browser, closes>>

\* await browser.close(), inside the loop; then the next iteration
LoopClose ==
    /\ pc = "loop_close"
    /\ browser' = "closed"
    /\ closes' = closes + 1
    /\ di' = di + 1
    /\ pc' = "dispatch"
    /\ UNCHANGED <<DetectVars, CredVars, LoginVars, log, SearchVars, messaged,
                   clicked, lateOps, driverFailed, raisedAt>>

\* the for loop is exhausted
LoopExit ==
    /\ pc = "dispatch"
    /\ di > Len(person_found)
    /\ Say(<<KeepOpenMsg>>)
    /\ pc' = "end_pause1"
    /\ UNCHANGED <<DetectVars, CredVars, LoginVars, SearchVars, DispatchVars,
                   CloseVars, driverFailed, raisedAt>>

\* await page.pause(), first one after the loop
EndPause1 ==
    /\ Pause("end_pause1", "end_close1", "main.end.pause1")
    /\ UNCHANGED <<DetectVars, CredVars, LoginVars, log, SearchVars, DispatchVars,
                   browser, closes>>

\* await browser.close(), first one after the loop
EndClose1 ==
    /\ pc = "end_close1"
    /\ browser' = "closed"
    /\ closes' = closes + 1
    /\ Say(<<KeepOpenMsg>>)
    /\ pc' = "end_pause2"
    /\ UNCHANGED <<DetectVars, CredVars, LoginVars, SearchVars, DispatchVars,
                   lateOps, driverFailed, raisedAt>>

\* await page.pause(), second one after the loop
EndPause2 ==
    /\ Pause("end_pause2", "end_close2", "main.end.pause2")
    /\ UNCHANGED <<DetectVars, CredVars, LoginVars, log, SearchVars, DispatchVars,
                   browser, closes>>

\* await browser.close(), the last statement
EndClose2 ==
    /\ pc = "end_close2"
    /\ browser' = "closed"
    /\ closes' = closes + 1
    /\ pc' = "done"
    /\ UNCHANGED <<DetectVars, CredVars, LoginVars, log, SearchVars, DispatchVars,
                   lateOps, driverFailed, raisedAt>>

-----------------------------------------------------------------------------

Next ==
    \/ Launch \/ GotoFeed
    \/ IsLoggedInUrl \/ ProbeSignIn \/ ProbeJoinNow \/ Branch
    \/ LoginGoto \/ LoginWait \/ LoginFillEmail \/ LoginFillPassword
    \/ LoginClick \/ LoginExpect \/ LoginScreenshot \/ LoginPause
    \/ CsClick \/ CsFill \/ CsEnter \/ CsWait
    \/ PsExpect \/ PsAllFilters \/ PsFirst \/ PsApply \/ PsWait \/ PsCards
    \/ ExtractCard \/ PsReturn
    \/ PeopleMessage \/ LoopPause \/ LoopClose \/ LoopExit
    \/ EndPause1 \/ EndClose1 \/ EndPause2 \/ EndClose2

Spec == Init /\ [][Next]_vars

-----------------------------------------------------------------------------
(* Properties *)

\* Positions at which company_search has already acted, or a later step runs.
AfterSearchStarted ==
    {"cs_fill", "cs_enter", "cs_wait", "ps_expect", "ps_all_filters", "ps_first",
     "ps_apply", "ps_wait", "ps_cards", "ps_loop", "dispatch", "loop_pause",
     "loop_close", "end_pause1", "end_close1", "end_pause2", "end_close2", "done"}

Ended == pc \in {"done", "raised"}

\* C1: once login has returned False, the run executes no later workflow step
\* (company_search, people_search, people_message).
C1_LoginFailureTerminal ==
    loginResult = "False" => pc \notin AfterSearchStarted

\* C2: when no page-driver operation on the open page raised and every
\* extracted name is a non-empty string, the run ends having clicked exactly one
\* "Message <name>" button per name of person_found, in list order.
C2_OneClickPerName ==
    (/\ Ended
     /\ ~driverFailed
     /\ \A i \in DOMAIN person_found :
           person_found[i].k = "str" /\ person_found[i].v # "")
    => clicked = [i \in DOMAIN person_found |-> "Message " \o person_found[i].v]

\* C3: every name people_search collects or returns is a non-empty string.
C3_NamesNonEmpty ==
    /\ \A i \in DOMAIN results : results[i].k = "str" /\ results[i].v # ""
    /\ \A i \in DOMAIN person_found :
          person_found[i].k = "str" /\ person_found[i].v # ""

\* C4: off the landing URL, a visible 'Sign in' or 'Join now' control makes
\* is_logged_in return False, whatever the other probe does.
C4_VisiblePromptMeansLoggedOut ==
    (/\ pc = "detected"
     /\ ~Contains("/feed", landing.url)
     /\ (landing.signIn = "visible" \/ landing.joinNow = "visible"))
    => logged_in = "False"

LoginSequence ==
    {"login.goto", "login.wait_for", "login.fill_email", "login.fill_password",
     "login.click_sign_in", "login.messaging_visible"}

\* C5: no exception raised by a step of the login sequence leaves login (and
\* so the run): the run never ends with an exception of one of these steps.
C5_LoginCatchesEveryStep ==
    pc = "raised" => raisedAt \notin LoginSequence

\* C6: no printed message contains the complete email or the complete password.
C6_CredentialsNeverLogged ==
    \A i \in DOMAIN log : ~Contains(email, log[i]) /\ ~Contains(password, log[i])

\* C7: on a page whose URL contains '/feed', is_logged_in evaluates neither
\* probe and returns True.
C7_FeedShortCircuit ==
    Contains("/feed", landing.url)
    => /\ probed = <<>>
       /\ pc \notin {"start", "goto_feed", "is_logged_in"} => logged_in = "True"

C7_Witness ==
    /\ pc = "detected"
    /\ Contains("/feed", landing.url)
    /\ landing.signIn = "visible"
    /\ landing.joinNow = "raises"
    /\ logged_in = "True"
    /\ probed = <<>>

\* The card's name read and status read succeed, and its status text is
\* non-empty and contains 'Status'.
Qualifies(card) ==
    /\ card.alt.k # "raises"
    /\ card.status.k = "str"
    /\ card.status.v # ""
    /\ Contains("Status", card.status.v)

QualifyingNames(cs) ==
    LET kept == SelectSeq(cs, Qualifies) IN [i \in 1..Len(kept) |-> kept[i].alt]

\* C8: people_search returns the names of exactly the qualifying cards, in
\* enumeration order; inside the loop `results` is that for the cards seen.
C8_ExtractSubsequence ==
    /\ pc = "ps_loop" => results = QualifyingNames(SubSeq(cards, 1, idx - 1))
    /\ pc # "ps_loop" => person_found = QualifyingNames(cards)

C8_Witness ==
    /\ pc = "dispatch"
    /\ cards = <<[alt |-> Str("Alice A"), status |-> Str("Status is online")],
                 [alt |-> Str("Carol C"), status |-> Str("Status is online")]>>
    /\ person_found = <<Str("Alice A"), Str("Carol C")>>

\* C9: a card whose name read or status read raises is skipped and nothing
\* else: the loop goes on to the next card with `results` kept, and
\* people_search returns only after every card was examined.
C9_CardFailureIsolated ==
    [][/\ (/\ pc = "ps_loop"
           /\ idx <= Len(cards)
           /\ (cards[idx].alt.k = "raises" \/ cards[idx].status.k = "raises"))
          => /\ pc' = "ps_loop"
             /\ idx' = idx + 1
             /\ results' = results
             /\ examined' = examined \cup {idx}
       /\ (pc = "ps_loop" /\ pc' # "ps_loop")
          => /\ pc' = "dispatch"
             /\ examined = DOMAIN cards
             /\ person_found' = results]_vars

C9_Witness ==
    /\ pc = "dispatch"
    /\ cards = <<[alt |-> Raises, status |-> Str("Status is online")],
                 [alt |-> Str("Carol C"), status |-> Str("Status is online")]>>
    /\ examined = {1, 2}
    /\ person_found = <<Str("Carol C")>>

\* C10: every people_message call is for the name of a card whose status text,
\* read in the extraction pass, is non-empty and contains 'Status'.
C10_DispatchOnlyActive ==
    \A i \in DOMAIN messaged :
        \E j \in DOMAIN cards :
            /\ cards[j].alt = messaged[i]
            /\ cards[j].status.k = "str"
            /\ cards[j].status.v # ""
            /\ Contains("Status", cards[j].status.v)

C10_Witness ==
    /\ cards = <<[alt |-> Str("Alice A"), status |-> Str("Away")],
                 [alt |-> Str("Carol C"), status |-> Str("Status is online")]>>
    /\ messaged = <<Str("Carol C")>>
    /\ clicked = <<"Message Carol C">>

\* Positions inside login.
LoginPcs ==
    {"login_goto", "login_wait", "login_fill_email", "login_fill_password",
     "login_click", "login_expect", "login_screenshot", "login_pause"}

\* The number of times login was entered: its first statement prints this line.
LoginCalls ==
    Cardinality({i \in DOMAIN log : log[i] = "INFO: Navigating to LinkedIn login page..."})

\* C11: login is entered only after is_logged_in returned False, and at most
\* once in a run: after True it is never entered, and after an attempt has
\* returned the run is never inside login again.
C11_LoginOnlyWhenLoggedOutOnce ==
    /\ LoginCalls <= 1
    /\ LoginCalls = 1 => logged_in = "False"
    /\ pc \in LoginPcs => LoginCalls = 1 /\ loginResult = "none"
    /\ (loginSteps # <<>> \/ loginResult # "none" \/ files # {}) => LoginCalls = 1
    /\ logged_in = "True" => LoginCalls = 0 /\ pc \notin LoginPcs

C11_Witness ==
    /\ pc = "cs_fill"
    /\ logged_in = "False"
    /\ loginResult = "False"
    /\ LoginCalls = 1

\* Positions inside is_logged_in.
DetectPcs == {"is_logged_in", "probe_sign_in", "probe_join_now"}

ProbeOutcome(probe) == IF probe = "Sign in" THEN landing.signIn ELSE landing.joinNow

\* Some probe that was evaluated reported its control visible.
ObservedVisible == \E i \in DOMAIN probed : ProbeOutcome(probed[i]) = "visible"

\* C12: is_logged_in always returns to its caller (it never raises), and it
\* returns False exactly when the URL does not contain '/feed' and a probe it
\* evaluated reported visible; on a raising probe or two hidden controls it
\* returns True.
C12_FailOpen ==
    [][/\ pc \in DetectPcs => pc' \in DetectPcs \cup {"detected"}
       /\ (pc \in DetectPcs /\ pc' = "detected")
          => /\ logged_in' \in {"True", "False"}
             /\ logged_in' = "False"
                <=> (~Contains("/feed", landing'.url) /\ ObservedVisible')]_vars

C12_Witness ==
    /\ pc = "detected"
    /\ landing.url = LoginUrl
    /\ landing.signIn = "hidden"
    /\ landing.joinNow = "raises"
    /\ probed = <<"Sign in", "Join now">>
    /\ logged_in = "True"

\* C13: when the wait for 'All filters' times out, people_search raises there:
\* the run has ended with that exception, no filter control was clicked (the
\* run is at no later position and the line printed after the 'Apply' click is
\* absent), no card was enumerated and no people_message call was made.
C13_FilterPreconditionIsHard ==
    filterWait = "timeout"
    => /\ pc = "raised"
       /\ raisedAt = "people_search.expect"
       /\ \A i \in DOMAIN log : log[i] # "applying People Filters....."
       /\ cards = <<>>
       /\ examined = {}
       /\ person_found = <<>>
       /\ messaged = <<>>
       /\ clicked = <<>>

C13_Witness ==
    /\ filterWait = "timeout"
    /\ pc = "raised"
    /\ raisedAt = "people_search.expect"
    /\ logged_in = "True"
    /\ \E i \in DOMAIN log : log[i] = "Company search completed"

\* The phase of the workflow a position belongs to: Start 0, DetectState 1,
\* Authenticate 2, Search 3, Filter 4, Extract 5, Dispatch 6, End 7; a
\* propagated exception ends the run (8).
PhaseOf(p) ==
    CASE p \in {"start", "goto_feed"} -> 0
      [] p \in {"is_logged_in", "probe_sign_in", "probe_join_now", "detected"} -> 1
      [] p \in {"login_goto", "login_wait", "login_fill_email", "login_fill_password",
                "login_click", "login_expect", "login_screenshot", "login_pause"} -> 2
      [] p \in {"cs_click", "cs_fill", "cs_enter", "cs_wait"} -> 3
      [] p \in {"ps_expect", "ps_all_filters", "ps_first", "ps_apply", "ps_wait"} -> 4
      [] p \in {"ps_cards", "ps_loop"} -> 5
      [] p \in {"dispatch", "loop_pause", "loop_close"} -> 6
      [] p \in {"end_pause1", "end_close1", "end_pause2", "end_close2", "done"} -> 7
      [] p = "raised" -> 8

\* C14: the run never goes back to an earlier phase (so no phase is entered
\* twice); 'All filters' is waited for only once the search's Enter and settle
\* wait are done; the cards are enumerated only after the 'Apply' click and its
\* settle wait; a people_message call happens only after every card was examined.
C14_LinearPass ==
    [][/\ PhaseOf(pc') >= PhaseOf(pc)
       /\ (pc' = "ps_expect" /\ pc # "ps_expect")
          => pc = "cs_wait" /\ (\E i \in DOMAIN log : log[i] = "Found Company...")
       /\ (pc' = "ps_wait" /\ pc # "ps_wait") => pc = "ps_apply"
       /\ (pc' = "ps_cards" /\ pc # "ps_cards") => pc = "ps_wait"
       /\ (cards' # cards \/ examined' # examined)
          => /\ pc \in {"ps_cards", "ps_loop"}
             /\ filterWait = "visible"
             /\ \E i \in DOMAIN log : log[i] = "applying People Filters....."
       /\ messaged' # messaged
          => /\ pc = "dispatch"
             /\ examined = DOMAIN cards
             /\ person_found = results]_vars

C14_Witness ==
    /\ pc = "loop_pause"
    /\ logged_in = "False"
    /\ loginResult = "True"
    /\ Len(cards) = 2
    /\ examined = {1, 2}
    /\ Len(messaged) = 1

-----------------------------------------------------------------------------
(* is_logged_in called twice on the same page *)

\* A caller that has the value of one is_logged_in(page) call and calls it
\* again, the page untouched in between. The first call's print is log[1].
DetectAgain ==
    /\ pc = "detected"
    /\ Len(log) = 1
    /\ pc' = "is_logged_in"
    /\ UNCHANGED <<DetectVars, CredVars, LoginVars, log, SearchVars, DispatchVars,
                   CloseVars, driverFailed, raisedAt>>

NextDetectTwice ==
    \/ Launch \/ GotoFeed
    \/ IsLoggedInUrl \/ ProbeSignIn \/ ProbeJoinNow
    \/ DetectAgain

SpecDetectTwice == Init /\ [][NextDetectTwice]_vars

\* C15: no step of is_logged_in changes the page it looks at, and the second
\* of two calls on the same page returns what the first returned, by the same
\* path (same print, same probes evaluated).
C15_DetectIdempotent ==
    [][/\ pc \in DetectPcs => landing' = landing
       /\ (pc \in DetectPcs /\ pc' = "detected" /\ Len(log') = 2)
          => /\ logged_in' = logged_in
             /\ log'[2] = log'[1]
             /\ \E n \in 0..2 : /\ Len(probed') = 2 * n
                                /\ SubSeq(probed', 1, n) = SubSeq(probed', n + 1, 2 * n)]_vars

C15_Witness ==
    /\ pc = "detected"
    /\ Len(log) = 2
    /\ landing.url = LoginUrl
    /\ landing.signIn = "hidden"
    /\ landing.joinNow = "visible"
    /\ probed = <<"Sign in", "Join now", "Sign in", "Join now">>
    /\ logged_in = "False"

\* The steps of login's sequence, in the order of the code.
LoginOrder ==
    <<"goto", "wait_for", "fill_email", "fill_password", "click_sign_in",
      "messaging_visible">>

\* C16: the steps login has completed are always an initial part of its
\* sequence (in order, none skipped); login returns True only with all six
\* completed; and once a step has failed (the handler runs, or login has
\* returned) no further step of the sequence is executed.
C16_LoginAllStepsInOrder ==
    [][/\ loginSteps' = SubSeq(LoginOrder, 1, Len(loginSteps'))
       /\ loginResult' = "True" => loginSteps' = LoginOrder
       /\ (pc \in {"login_screenshot", "login_pause", "raised"} \/ loginResult # "none")
          => loginSteps' = loginSteps
       /\ (pc \in LoginPcs /\ loginSteps' = loginSteps /\ pc' # pc)
          => pc' \in {"login_screenshot", "login_pause", "raised"} \/ loginResult' = "False"]_vars

C16_Witness ==
    /\ pc = "cs_click"
    /\ loginResult = "True"
    /\ loginSteps = LoginOrder
    /\ files = {}

\* C17: a people_message call whose click did not complete is the last call
\* of the run: the run has ended with that call's exception, and no name
\* after it in person_found was dispatched.
C17_DispatchNotIsolated ==
    Len(messaged) > Len(clicked)
    => /\ pc = "raised"
       /\ raisedAt \in {"people_message.click", "people_message.concat"}
       /\ Len(messaged) = Len(clicked) + 1
       /\ di = Len(messaged)
       /\ messaged = SubSeq(person_found, 1, di)

C17_Witness ==
    /\ pc = "raised"
    /\ raisedAt = "people_message.click"
    /\ browser = "open"
    /\ person_found = <<Str("Alice A"), Str("Carol C")>>
    /\ messaged = <<Str("Alice A")>>
    /\ clicked = <<>>

\* C18: no page-driver operation is invoked after browser.close(), and
\* browser.close() is called at most once in a run.
C18_NoUseAfterClose ==
    /\ lateOps = {}
    /\ closes <= 1

-----------------------------------------------------------------------------
(* Termination *)

\* Every awaited operation eventually completes or raises, and the operator
\* eventually resumes every pause: a step that can be taken is taken.
LiveSpec == Spec /\ WF_vars(Next)

\* C19: every run reaches the end of main_demonstration or ends with a
\* propagated exception.
C19_Terminates == <>(pc \in {"done", "raised"})

C19_Witness ==
    /\ pc = "done"
    /\ Len(cards) = 2
    /\ examined = {1, 2}
    /\ Len(clicked) = 1

====
